---- MODULE Spec2Model ----
(***************************************************************************)
(* A model of tscan's cache layer: the immutable fluent query builder      *)
(* (tscan/cache/model_query.py) and the scoped database connection         *)
(* (tscan/cache/connection.py).                                            *)
(*                                                                         *)
(* Python objects are modelled with reference semantics where the code     *)
(* mutates them in place: the predicate lists held by a builder's params   *)
(* dict live in a heap (`lists`) and a dict holds their addresses, so that *)
(* a shallow dict copy shares the lists exactly as dict.copy() does.       *)
(* Containers the code always copies before changing (values, set, join,   *)
(* order_by, returning) are modelled by value.  A dict is a sequence of    *)
(* <<key, value>> pairs in insertion order.  None is the empty sequence    *)
(* for every optional field (no method ever stores an empty container, and *)
(* build() tests these fields by truthiness only).                         *)
(*                                                                         *)
(* SQL text is a sequence of tokens; a value is a tagged record.           *)
(***************************************************************************)
EXTENDS Integers, Sequences, FiniteSets, TLC

VARIABLES
    builders,   \* slot -> ModelQuery object (its eight fields)
    lists,      \* heap address -> predicate list: sequence of <<column, value>>
    hist,       \* slot -> operator calls made along the builder's derivation
    result,     \* outcome of the last builder call
    connection, \* FSCacheConnection.__connection: handle id, 0 when None
    cursor,     \* FSCacheConnection.__cursor: handle id, 0 when None
    handles,    \* engine side: handle id -> "open" | "closed"
    pc,         \* position of the with-statement / __exit__ being executed
    scope,      \* the scope in progress: nesting depth, how the body ended, what
                \* the manager held when __exit__ began, the pending exception
    calls,      \* engine calls made by the __exit__ in progress, in order
    outcome     \* what the caller of the last finished scope observed

builderVars == <<builders, lists, hist, result>>
connVars == <<connection, cursor, handles, pc, scope, calls, outcome>>
vars == <<builders, lists, hist, result, connection, cursor, handles, pc, scope,
          calls, outcome>>

---------------------------------------------------------------------------
(* Bounds *)

MaxBuilders == 3     \* builder objects kept alive together
MaxPreds == 2        \* predicates held by the heap in the WHERE specification
MaxClauses == 3      \* clause items held by one builder in the clause specification
MaxPage == 2        \* largest limit / offset argument in the pagination specification
MaxPreviewItems == 2 \* clause items held by the builder in the preview specification
MaxOrderItems == 5   \* clause items held by the builder in the clause-order specification
MaxScopes == 3       \* connection handles opened by one manager

---------------------------------------------------------------------------
(* Values and small helpers *)

None == <<>>

IntV(n) == [kind |-> "int", n |-> n, items |-> <<>>]
ListV(s) == [kind |-> "list", n |-> 0, items |-> s]

\* a str, as the sequence of its character codes
StrV(codes) == [kind |-> "str", n |-> 0, items |-> codes]

\* the value None
NoneV == [kind |-> "none", n |-> 0, items |-> <<>>]

\* an object whose __repr__ raises
ObjectV == [kind |-> "object", n |-> 0, items |-> <<>>]

\* the character codes the model uses
Apostrophe == 39

\* chr(code)
Chr(code) == IF code = Apostrophe THEN "'" ELSE IF code = 79 THEN "O" ELSE "B"

\* isinstance(value, (list, tuple))
IsListOrTuple(v) == v.kind = "list"

RECURSIVE Concat(_)
Concat(ss) == IF ss = <<>> THEN <<>> ELSE Head(ss) \o Concat(Tail(ss))

\* sep.join(parts), each part a token sequence
RECURSIVE JoinTokens(_, _)
JoinTokens(parts, sep) ==
    IF parts = <<>> THEN <<>>
    ELSE IF Len(parts) = 1 THEN Head(parts)
    ELSE Head(parts) \o <<sep>> \o JoinTokens(Tail(parts), sep)

\* ["?"] * n
Placeholders(n) == [i \in 1..n |-> <<"?">>]

\* dict[key] = value: an existing key keeps its position, a new key is appended
DictSet(d, k, v) ==
    IF \E i \in 1..Len(d) : d[i][1] = k
    THEN [i \in 1..Len(d) |-> IF d[i][1] = k THEN <<k, v>> ELSE d[i]]
    ELSE Append(d, <<k, v>>)

\* dict.update(other)
RECURSIVE DictUpdate(_, _)
DictUpdate(d, other) ==
    IF other = <<>> THEN d
    ELSE DictUpdate(DictSet(d, Head(other)[1], Head(other)[2]), Tail(other))

DictGet(d, k) == (CHOOSE i \in 1..Len(d) : d[i][1] = k)

---------------------------------------------------------------------------
(* Operator registry *)

OPERATOR_MAP ==
    << <<"equal", "=">>,
       <<"not_equal", "<>">>,
       <<"greater_than", ">">>,
       <<"less_than", "<">>,
       <<"greater_than_or_equal", ">=">>,
       <<"less_than_or_equal", "<=">>,
       <<"like", "LIKE">>,
       <<"not_like", "NOT LIKE">>,
       <<"in_", "IN">>,
       <<"not_in", "NOT IN">>,
       <<"is_null", "IS NULL">>,
       <<"is_not_null", "IS NOT NULL">> >>

OperatorNames == {OPERATOR_MAP[i][1] : i \in 1..Len(OPERATOR_MAP)}

\* _OPERATOR_MAP[op_name]
OperatorSymbol(op_name) == OPERATOR_MAP[DictGet(OPERATOR_MAP, op_name)][2]

\* position of an operator in the registry
RegistryIndex(op_name) == DictGet(OPERATOR_MAP, op_name)

---------------------------------------------------------------------------
(* ModelQuery: construction and cloning *)

\* __generate_base_params: one fresh empty list per operator, allocated at
\* heap addresses base+1 .. base+12
GenerateBaseParams(base) ==
    [i \in 1..Len(OPERATOR_MAP) |-> <<OPERATOR_MAP[i][1], base + i>>]

\* ModelQuery.__init__ with every argument given
ModelQuery(query, params, values, set_values, join, order_by, pagination, returning) ==
    [query |-> query, params |-> params, values |-> values, set |-> set_values,
     join |-> join, order_by |-> order_by, pagination |-> pagination,
     returning |-> returning]

\* __clone_with: an argument that is None keeps the receiver's field, by reference
CloneWith(self, query, params, values, set_values, join, order_by, pagination, returning) ==
    ModelQuery(
        IF query # None THEN query ELSE self.query,
        IF params # None THEN params ELSE self.params,
        IF values # None THEN values ELSE self.values,
        IF set_values # None THEN set_values ELSE self.set,
        IF join # None THEN join ELSE self.join,
        IF order_by # None THEN order_by ELSE self.order_by,
        IF pagination # None THEN pagination ELSE self.pagination,
        IF returning # None THEN returning ELSE self.returning)

\* the guard of __requires_tablename / _tablename_exists and of build()
HasTablename(self) == self.query # None

\* address of the predicate list of op_name in a params dict
ListOf(params, op_name) == params[DictGet(params, op_name)][2]

\* ModelQuery() : a root builder, params defaulted
RootBuilder(base) ==
    ModelQuery(None, GenerateBaseParams(base), None, None, None, None, None, None)

---------------------------------------------------------------------------
(* ModelQuery.build *)

\* self.__query.startswith(verb)
StartsWith(query, verb) == query # None /\ query[1] = verb

\* the tuple tested at line 303 to recognise the set-membership operators
SetMembershipNames == {"in", "not_in"}

\* the tuple tested at line 301 to recognise the nullness operators
NullnessNames == {"is_null", "is_not_null"}

\* a rendering that writes one placeholder per element of a set-membership
\* value but binds the value whole
RenderConditionWholeValue(op_name, column, value) ==
    LET op_symbol == OperatorSymbol(op_name) IN
    IF op_name \in NullnessNames
    THEN [error |-> FALSE, sql |-> <<column, op_symbol>>, params |-> <<>>]
    ELSE IF op_name \in SetMembershipNames
    THEN IF ~IsListOrTuple(value)
         THEN [error |-> TRUE, sql |-> <<>>, params |-> <<>>]
         ELSE [error |-> FALSE,
               sql |-> <<column, op_symbol, "(">>
                       \o JoinTokens(Placeholders(Len(value.items)), ",")
                       \o <<")">>,
               params |-> <<value>>]
    ELSE [error |-> FALSE, sql |-> <<column, op_symbol, "?">>, params |-> <<value>>]

\* One (column, value) condition of operator op_name, lines 299-313:
\* its SQL tokens, its parameters, and whether it raises ValueError.
RenderCondition(op_name, column, value) ==
    LET op_symbol == OperatorSymbol(op_name) IN
    IF op_name \in NullnessNames
    THEN [error |-> FALSE, sql |-> <<column, op_symbol>>, params |-> <<>>]
    ELSE IF op_name \in SetMembershipNames
    THEN IF ~IsListOrTuple(value)
         THEN [error |-> TRUE, sql |-> <<>>, params |-> <<>>]
         ELSE [error |-> FALSE,
               sql |-> <<column, op_symbol, "(">>
                       \o JoinTokens(Placeholders(Len(value.items)), ",")
                       \o <<")">>,
               params |-> [i \in 1..Len(value.items) |-> IntV(value.items[i])]]
    ELSE [error |-> FALSE, sql |-> <<column, op_symbol, "?">>, params |-> <<value>>]

\* The conditions build() visits, in the order it visits them: the params
\* dict in its own order, each list in list order (lines 296-300).
WhereConditions(self, heap) ==
    Concat([i \in 1..Len(self.params) |->
        LET conditions == heap[self.params[i][2]] IN
        [j \in 1..Len(conditions) |->
            [op |-> self.params[i][1], column |-> conditions[j][1],
             value |-> conditions[j][2]]]])

\* Join, lines 273-276
BuildJoin(self) ==
    IF self.join # <<>> /\ StartsWith(self.query, "SELECT")
    THEN [sql |-> Concat([i \in 1..Len(self.join) |->
                      <<"JOIN", self.join[i][1], "ON", self.join[i][2]>>]),
          params |-> <<>>]
    ELSE [sql |-> <<>>, params |-> <<>>]

\* Set (UPDATE), lines 278-284
BuildSet(self) ==
    IF self.set # <<>> /\ StartsWith(self.query, "UPDATE")
    THEN [sql |-> <<"SET">> \o JoinTokens([i \in 1..Len(self.set) |->
                      <<self.set[i][1], "=", "?">>], ","),
          params |-> [i \in 1..Len(self.set) |-> self.set[i][2]]]
    ELSE [sql |-> <<>>, params |-> <<>>]

\* Values (INSERT), lines 286-291
BuildValues(self) ==
    IF self.values # <<>> /\ StartsWith(self.query, "INSERT")
    THEN [sql |-> <<"(">> \o JoinTokens([i \in 1..Len(self.values) |->
                      <<self.values[i][1]>>], ",")
                  \o <<")", "VALUES", "(">>
                  \o JoinTokens(Placeholders(Len(self.values)), ",") \o <<")">>,
          params |-> [i \in 1..Len(self.values) |-> self.values[i][2]]]
    ELSE [sql |-> <<>>, params |-> <<>>]

\* Where, lines 293-315
BuildWhere(self, heap) ==
    LET conds == WhereConditions(self, heap)
        where_clauses == [i \in 1..Len(conds) |->
            RenderCondition(conds[i].op, conds[i].column, conds[i].value)]
    IN  IF \E i \in 1..Len(where_clauses) : where_clauses[i].error
        THEN [error |-> TRUE, sql |-> <<>>, params |-> <<>>]
        ELSE IF where_clauses = <<>>
        THEN [error |-> FALSE, sql |-> <<>>, params |-> <<>>]
        ELSE [error |-> FALSE,
              sql |-> <<"WHERE">> \o JoinTokens(
                          [i \in 1..Len(where_clauses) |-> where_clauses[i].sql], "AND"),
              params |-> Concat([i \in 1..Len(where_clauses) |-> where_clauses[i].params])]

\* an ORDER BY rendered whatever the verb
BuildOrderByAnyVerb(self) ==
    IF self.order_by # <<>>
    THEN [sql |-> <<"ORDER BY">> \o JoinTokens([i \in 1..Len(self.order_by) |->
                      <<self.order_by[i][1], self.order_by[i][2]>>], ","),
          params |-> <<>>]
    ELSE [sql |-> <<>>, params |-> <<>>]

\* Order by, lines 317-320
BuildOrderBy(self) ==
    IF self.order_by # <<>> /\ StartsWith(self.query, "SELECT")
    THEN [sql |-> <<"ORDER BY">> \o JoinTokens([i \in 1..Len(self.order_by) |->
                      <<self.order_by[i][1], self.order_by[i][2]>>], ","),
          params |-> <<>>]
    ELSE [sql |-> <<>>, params |-> <<>>]

\* a pagination that writes OFFSET before LIMIT
BuildPaginationOffsetFirst(self) ==
    IF self.pagination # None /\ StartsWith(self.query, "SELECT")
    THEN LET offset == self.pagination[1]
             limit == self.pagination[2]
         IN [sql |-> (IF offset # None THEN <<"OFFSET", ToString(offset[1])>> ELSE <<>>)
                     \o (IF limit # None THEN <<"LIMIT", ToString(limit[1])>> ELSE <<>>),
             params |-> <<>>]
    ELSE [sql |-> <<>>, params |-> <<>>]

\* LIMIT / OFFSET, lines 322-328; pagination is the pair <<offset, limit>>
BuildPagination(self) ==
    IF self.pagination # None /\ StartsWith(self.query, "SELECT")
    THEN LET offset == self.pagination[1]
             limit == self.pagination[2]
         IN [sql |-> (IF limit # None THEN <<"LIMIT", ToString(limit[1])>> ELSE <<>>)
                     \o (IF offset # None THEN <<"OFFSET", ToString(offset[1])>> ELSE <<>>),
             params |-> <<>>]
    ELSE [sql |-> <<>>, params |-> <<>>]

\* Returning, lines 330-335
BuildReturning(self) ==
    IF self.returning # <<>>
       /\ (StartsWith(self.query, "INSERT") \/ StartsWith(self.query, "UPDATE"))
    THEN [sql |-> <<"RETURNING">> \o JoinTokens([i \in 1..Len(self.returning) |->
                      <<self.returning[i]>>], ","),
          params |-> <<>>]
    ELSE [sql |-> <<>>, params |-> <<>>]

\* The clauses of build() in the order the code appends them
BuildParts(self, heap) ==
    << BuildJoin(self), BuildSet(self), BuildValues(self),
       [sql |-> BuildWhere(self, heap).sql, params |-> BuildWhere(self, heap).params],
       BuildOrderBy(self), BuildPagination(self), BuildReturning(self) >>

\* build(): the status, and on success the SQL text and the parameter list
Build(self, heap) ==
    IF ~HasTablename(self)
    THEN [status |-> "TablenameDoesNotExist", sql |-> <<>>, params |-> <<>>]
    ELSE IF BuildWhere(self, heap).error
    THEN [status |-> "ValueError", sql |-> <<>>, params |-> <<>>]
    ELSE LET parts == BuildParts(self, heap) IN
         [status |-> "ok",
          sql |-> self.query \o Concat([i \in 1..Len(parts) |-> parts[i].sql]),
          params |-> Concat([i \in 1..Len(parts) |-> parts[i].params])]

---------------------------------------------------------------------------
(* ModelQuery.preview *)

\* val.replace("'", "''"), on character codes
RECURSIVE ReplaceQuotes(_)
ReplaceQuotes(codes) ==
    IF codes = <<>> THEN <<>>
    ELSE (IF Head(codes) = Apostrophe THEN <<Apostrophe, Apostrophe>> ELSE <<Head(codes)>>)
         \o ReplaceQuotes(Tail(codes))

\* repr(val) of a value that is no None, str, int or float (line 361)
Repr(val) ==
    IF val.kind = "list"
    THEN [raised |-> "none",
          text |-> <<"[">> \o JoinTokens([i \in 1..Len(val.items) |->
                       <<ToString(val.items[i])>>], ",") \o <<"]">>]
    ELSE [raised |-> "RuntimeError", text |-> <<>>]

\* the literal the replacer writes for one parameter, lines 354-361
Literal(val) ==
    IF val.kind = "none" THEN [raised |-> "none", text |-> <<"NULL">>]
    ELSE IF val.kind = "str"
    THEN [raised |-> "none",
          text |-> <<"'">>
                   \o [i \in 1..Len(ReplaceQuotes(val.items)) |->
                          Chr(ReplaceQuotes(val.items)[i])]
                   \o <<"'">>]
    ELSE IF val.kind = "int" THEN [raised |-> "none", text |-> <<ToString(val.n)>>]
    ELSE Repr(val)

\* sub(r"\?", replacer, sql), lines 349-365: every "?" of the text, from left
\* to right, takes the next parameter of the iterator; once the iterator is
\* exhausted (StopIteration) a "?" is written back; an exception raised by
\* the replacer leaves sub()
RECURSIVE Substitute(_, _)
Substitute(sql, param_iter) ==
    IF sql = <<>> THEN [raised |-> "none", text |-> <<>>]
    ELSE IF Head(sql) # "?"
    THEN LET rest == Substitute(Tail(sql), param_iter) IN
         IF rest.raised # "none" THEN rest
         ELSE [raised |-> "none", text |-> <<Head(sql)>> \o rest.text]
    ELSE IF param_iter = <<>>
    THEN LET rest == Substitute(Tail(sql), param_iter) IN
         [raised |-> "none", text |-> <<"?">> \o rest.text]
    ELSE LET lit == Literal(Head(param_iter)) IN
         IF lit.raised # "none" THEN [raised |-> lit.raised, text |-> <<>>]
         ELSE LET rest == Substitute(Tail(sql), Tail(param_iter)) IN
              IF rest.raised # "none" THEN rest
              ELSE [raised |-> "none", text |-> lit.text \o rest.text]

\* the try block of preview(), lines 348-366
PreviewTry(self, heap) ==
    LET out == Build(self, heap) IN
    IF out.status # "ok" THEN [raised |-> out.status, text |-> <<>>]
    ELSE Substitute(out.sql, out.params)

\* str(error) of the exceptions the try block can raise
ErrorMessage(kind) ==
    IF kind = "TablenameDoesNotExist"
    THEN "The query (..) does not specify the table name."
    ELSE IF kind = "ValueError"
    THEN "The 'in' and 'not_in' operators require a list or tuple."
    ELSE "repr failed"

\* an except clause that catches ValueError only
ExceptValueErrorOnly(kind) == kind = "ValueError"

\* `except Exception` (line 368): TablenameDoesNotExist, ValueError and
\* RuntimeError all derive from Exception
ExceptException(kind) == kind \in {"TablenameDoesNotExist", "ValueError", "RuntimeError"}

\* preview(): what it returns, or the exception that leaves it
Preview(self, heap) ==
    LET body == PreviewTry(self, heap) IN
    IF body.raised = "none" THEN [status |-> "ok", text |-> body.text]
    ELSE IF ExceptException(body.raised)
    THEN [status |-> "ok",
          text |-> <<"/* PREVIEW ERROR:", body.raised, ":", ErrorMessage(body.raised), "*/">>]
    ELSE [status |-> body.raised, text |-> <<>>]

---------------------------------------------------------------------------
(* ModelQuery: verb, operator and clause methods.                          *)
(* Each returns its status, the builder it returns and the heap it leaves. *)

Returns(ret, heap) == [status |-> "ok", ret |-> ret, lists |-> heap]
Raises(error, heap) == [status |-> error, ret |-> <<>>, lists |-> heap]

\* a wrapper that forgets the check and calls the wrapped method
RequiresTablenameUnchecked(self, heap, out) == out

\* the wrapper of __requires_tablename and of _tablename_exists: the check
\* runs before the wrapped method sees its arguments
RequiresTablename(self, heap, out) ==
    IF ~HasTablename(self) THEN Raises("TablenameDoesNotExist", heap) ELSE out

\* select(tablename, columns)
SelectMethod(self, heap, tablename, columns) ==
    LET resulted_columns == IF columns = <<>> THEN <<"*">>
                            ELSE JoinTokens([i \in 1..Len(columns) |-> <<columns[i]>>], ",")
    IN Returns(CloneWith(self, <<"SELECT">> \o resulted_columns \o <<"FROM", tablename>>,
                         None, None, None, None, None, None, None), heap)

\* insert(tablename)
InsertMethod(self, heap, tablename) ==
    Returns(CloneWith(self, <<"INSERT", "INTO", tablename>>,
                      None, None, None, None, None, None, None), heap)

\* delete(tablename)
DeleteMethod(self, heap, tablename) ==
    Returns(CloneWith(self, <<"DELETE", "FROM", tablename>>,
                      None, None, None, None, None, None, None), heap)

\* update(tablename)
UpdateMethod(self, heap, tablename) ==
    Returns(CloneWith(self, <<"UPDATE", tablename>>,
                      None, None, None, None, None, None, None), heap)

\* dict.copy() of a params dict: a new dict holding the same list objects
ParamsCopy(params) == params

\* the pair put at the front of the list instead of its end
ListPrepend(heap, addr, column, value) ==
    [heap EXCEPT ![addr] = <<<<column, value>>>> \o @]

\* list.append((column, value)) on the list object at addr
ListAppend(heap, addr, column, value) ==
    [heap EXCEPT ![addr] = Append(@, <<column, value>>)]

\* the method generated by _create_operator_method(op_name), wrapped by
\* _tablename_exists (lines 386-389)
OperatorMethod(self, heap, op_name, column, value) ==
    RequiresTablename(self, heap,
        IF op_name \notin OperatorNames
        THEN Raises("NotImplementedError", heap)
        ELSE LET new_params == ParamsCopy(self.params) IN
             Returns(CloneWith(self, None, new_params, None, None, None, None, None, None),
                     ListAppend(heap, ListOf(new_params, op_name), column, value)))

\* where(*args): a ModelQuery has no attribute `params`, so the first
\* fragment makes `arg.params` raise AttributeError
WhereMethod(self, heap, args) ==
    RequiresTablename(self, heap,
        IF args = <<>> THEN Returns(self, heap)
        ELSE Raises("AttributeError", heap))

\* values(**kwargs)
ValuesMethod(self, heap, kwargs) ==
    RequiresTablename(self, heap,
        IF kwargs = <<>> THEN Returns(self, heap)
        ELSE LET new_values == DictUpdate(self.values, kwargs) IN
             Returns(CloneWith(self, None, None, new_values, None, None, None, None, None),
                     heap))

\* set(**kwargs)
SetMethod(self, heap, kwargs) ==
    RequiresTablename(self, heap,
        IF kwargs = <<>> THEN Returns(self, heap)
        ELSE LET new_set == DictUpdate(self.set, kwargs) IN
             Returns(CloneWith(self, None, None, None, new_set, None, None, None, None),
                     heap))

\* join(tablename, condition)
JoinMethod(self, heap, tablename, condition) ==
    RequiresTablename(self, heap,
        LET join == Append(self.join, <<tablename, condition>>) IN
        Returns(CloneWith(self, None, None, None, None, join, None, None, None), heap))

\* order_by(column, order_type)
OrderByMethod(self, heap, column, order_type) ==
    RequiresTablename(self, heap,
        LET order_by == Append(self.order_by, <<column, order_type>>) IN
        Returns(CloneWith(self, None, None, None, None, None, order_by, None, None), heap))

\* the property limit_data, lines 157-159
LimitData(self) == IF self.pagination = None THEN None ELSE self.pagination[2]

\* the property offset_data, lines 161-163
OffsetData(self) == IF self.pagination = None THEN None ELSE self.pagination[1]

\* a limit() that forgets the offset already set
LimitMethodDropsOffset(self, heap, limit) ==
    RequiresTablename(self, heap,
        IF limit < 0 THEN Raises("ValueError", heap)
        ELSE Returns(CloneWith(self, None, None, None, None, None, None,
                 << None, <<limit>> >>, None), heap))

\* limit(limit): pagination is the pair <<offset, limit>>
LimitMethod(self, heap, limit) ==
    RequiresTablename(self, heap,
        IF limit < 0 THEN Raises("ValueError", heap)
        ELSE Returns(CloneWith(self, None, None, None, None, None, None,
                 << IF self.pagination = None THEN None ELSE self.pagination[1],
                    <<limit>> >>, None), heap))

\* offset(offset)
OffsetMethod(self, heap, offset) ==
    RequiresTablename(self, heap,
        IF offset < 0 THEN Raises("ValueError", heap)
        ELSE Returns(CloneWith(self, None, None, None, None, None, None,
                 << <<offset>>,
                    IF self.pagination = None THEN None ELSE self.pagination[2] >>,
                 None), heap))

\* returning(*args)
ReturningMethod(self, heap, args) ==
    RequiresTablename(self, heap,
        IF args = <<>> THEN Returns(self, heap)
        ELSE LET returning == self.returning \o args IN
             Returns(CloneWith(self, None, None, None, None, None, None, None, returning),
                     heap))

-------------------------------------------------------------------------------------------------------------------------------------------------
(* Inputs of the builder calls *)

Tables == {"t"}
SelectColumns == {<<>>, <<"id", "a">>}
Values == {IntV(1), ListV(<<2, 3>>)}
Kwargs == {<<>>, << <<"a", IntV(1)>> >>, << <<"b", ListV(<<2, 3>>)>> >>}
JoinArgs == {<<"u", "c">>}
OrderArgs == {<<"a", "ASC">>, <<"b", "DESC">>}
PageArgs == {-1, 0, 5}
ReturningArgs == {<<>>, <<"id">>}

---------------------------------------------------------------------------
(* Builder calls as actions.  b is the slot of the receiver, dst the slot  *)
(* the returned builder is bound to: a new slot (x = b.m(..)) or the       *)
(* receiver's own (b = b.m(..)).                                           *)

Store(seq, dst, x) ==
    IF dst = Len(seq) + 1 THEN Append(seq, x) ELSE [seq EXCEPT ![dst] = x]

CallResult(method, self, status) ==
    [method |-> method, bound |-> HasTablename(self), status |-> status,
     sql |-> <<>>, params |-> <<>>]

\* the effect of a call that returned or raised `out`; h is the operator
\* call it made, if it made one
Invoke(b, dst, method, out, h) ==
    /\ result' = CallResult(method, builders[b], out.status)
    /\ IF out.status = "ok"
       THEN /\ builders' = Store(builders, dst, out.ret)
            /\ lists' = out.lists
            /\ hist' = Store(hist, dst, hist[b] \o h)
       ELSE UNCHANGED <<builders, lists, hist>>
    /\ UNCHANGED connVars

Select(b, dst, tablename, columns) ==
    Invoke(b, dst, "select", SelectMethod(builders[b], lists, tablename, columns), <<>>)

Insert(b, dst, tablename) ==
    Invoke(b, dst, "insert", InsertMethod(builders[b], lists, tablename), <<>>)

Update(b, dst, tablename) ==
    Invoke(b, dst, "update", UpdateMethod(builders[b], lists, tablename), <<>>)

Delete(b, dst, tablename) ==
    Invoke(b, dst, "delete", DeleteMethod(builders[b], lists, tablename), <<>>)

Operator(b, dst, op_name, column, value) ==
    Invoke(b, dst, op_name, OperatorMethod(builders[b], lists, op_name, column, value),
           << [op |-> op_name, column |-> column, value |-> value] >>)

\* args: the slots of the fragment builders
Where(b, dst, args) ==
    Invoke(b, dst, "where", WhereMethod(builders[b], lists, args), <<>>)

ValuesCall(b, dst, kwargs) ==
    Invoke(b, dst, "values", ValuesMethod(builders[b], lists, kwargs), <<>>)

SetCall(b, dst, kwargs) ==
    Invoke(b, dst, "set", SetMethod(builders[b], lists, kwargs), <<>>)

Join(b, dst, tablename, condition) ==
    Invoke(b, dst, "join", JoinMethod(builders[b], lists, tablename, condition), <<>>)

OrderBy(b, dst, column, order_type) ==
    Invoke(b, dst, "order_by", OrderByMethod(builders[b], lists, column, order_type), <<>>)

Limit(b, dst, n) ==
    Invoke(b, dst, "limit", LimitMethod(builders[b], lists, n), <<>>)

Offset(b, dst, n) ==
    Invoke(b, dst, "offset", OffsetMethod(builders[b], lists, n), <<>>)

Returning(b, dst, args) ==
    Invoke(b, dst, "returning", ReturningMethod(builders[b], lists, args), <<>>)

\* a build() that empties the predicate lists it has rendered
BuildCallConsuming(b) ==
    LET out == Build(builders[b], lists) IN
    /\ result' = [method |-> "build", bound |-> HasTablename(builders[b]),
                  status |-> out.status, sql |-> out.sql, params |-> out.params]
    /\ lists' = [a \in DOMAIN lists |-> <<>>]
    /\ UNCHANGED <<builders, hist>>
    /\ UNCHANGED connVars

\* build() on the builder in slot b
BuildCall(b) ==
    LET out == Build(builders[b], lists) IN
    /\ result' = [method |-> "build", bound |-> HasTablename(builders[b]),
                  status |-> out.status, sql |-> out.sql, params |-> out.params]
    /\ UNCHANGED <<builders, lists, hist>>
    /\ UNCHANGED connVars

\* preview() on the builder in slot b
PreviewCall(b) ==
    LET out == Preview(builders[b], lists) IN
    /\ result' = [method |-> "preview", bound |-> HasTablename(builders[b]),
                  status |-> out.status, sql |-> out.text, params |-> <<>>]
    /\ UNCHANGED <<builders, lists, hist>>
    /\ UNCHANGED connVars

-----
(* Sizes, for the guards that keep the state space finite *)

RECURSIVE SumLen(_)
SumLen(ss) == IF ss = <<>> THEN 0 ELSE Len(Head(ss)) + SumLen(Tail(ss))

\* predicates held by the heap
PredCount == SumLen(lists)

\* clause items held by one builder
Weight(self) ==
    Len(self.join) + Len(self.order_by) + Len(self.returning) + Len(self.values)
    + Len(self.set) + SumLen([i \in 1..Len(self.params) |-> lists[self.params[i][2]]])
    + (IF self.pagination = None THEN 0 ELSE SumLen(self.pagination))

---------------------------------------------------------------------------
(* FSCacheConnection.  A handle is a positive number (a Connection object  *)
(* is truthy); 0 is None.  The manager is used through with-statements:    *)
(* __enter__, the body, then __exit__ with the way the body ended.         *)
(* __exit__ is followed statement by statement (pc), each engine call      *)
(* succeeding or raising.  scope.pending is the exception propagating      *)
(* inside __exit__ ("none" once an except clause has caught it).           *)

\* the property `connection`, lines 21-26
ConnectionProperty ==
    IF connection = 0 THEN "RuntimeError: Connection is not established."
    ELSE "connection"

\* the property `cursor`, lines 28-33
CursorProperty ==
    IF cursor = 0 THEN "RuntimeError: Cursor is not established."
    ELSE "cursor"

EngineCall(name, ok) == [call |-> name, ok |-> ok]

\* __enter__, lines 35-51.  failing names the step that raises, if any:
\* connect(), one of the PRAGMA statements, or cursor().
Enter(failing) ==
    /\ pc \in {"idle", "body"}
    /\ Len(handles) < MaxScopes
    /\ IF failing = "connect"
       THEN /\ UNCHANGED <<connection, cursor, handles, scope, pc>>
            /\ outcome' = [finished |-> "enter", exc |-> FALSE, error |-> "connect_error"]
       ELSE /\ handles' = Append(handles, "open")
            /\ connection' = Len(handles) + 1
            /\ IF failing = "none"
               THEN /\ cursor' = Len(handles) + 1
                    /\ pc' = "body"
                    /\ scope' = [scope EXCEPT !.depth = @ + 1]
                    /\ outcome' = [finished |-> "enter", exc |-> FALSE, error |-> "none"]
               ELSE /\ UNCHANGED <<cursor, pc, scope>>
                    /\ outcome' = [finished |-> "enter", exc |-> FALSE,
                                   error |-> failing \o "_error"]
    /\ UNCHANGED calls
    /\ UNCHANGED builderVars

\* a dispatch that commits however the body ended
ExitDispatchAlwaysCommit(conn, raised) ==
    IF conn = 0 THEN "return" ELSE "commit"

\* where __exit__ goes first, lines 59-62 and 72-73: nowhere without a
\* connection, to the commit when exc_type is None, else to the rollback
ExitDispatch(conn, raised) ==
    IF conn = 0 THEN "return"
    ELSE IF ~raised THEN "commit" ELSE "rollback"

\* the body of the with-statement ends, normally or by raising;
\* __exit__ is called with exc_type set accordingly (lines 53-59)
ExitBegin(raised) ==
    /\ pc = "body"
    /\ scope' = [scope EXCEPT !.exc = raised, !.pending = "none",
                              !.held = connection # 0, !.heldCursor = cursor # 0]
    /\ calls' = <<>>
    /\ pc' = ExitDispatch(connection, raised)
    /\ UNCHANGED <<connection, cursor, handles, outcome>>
    /\ UNCHANGED builderVars

\* after self.__connection.commit(), lines 63-66: `except Exception` catches
\* the failure, logs it and goes on to the secondary rollback
AfterCommit(ok) ==
    [pc |-> IF ok THEN "close" ELSE "commit_failed", pending |-> "none"]

\* after the secondary rollback, lines 67-70: a failure is passed over
AfterSecondaryRollback(ok) == [pc |-> "close", pending |-> "none"]

\* a rollback whose failure is not caught
AfterRollbackRaises(ok) ==
    [pc |-> "close", pending |-> IF ok THEN "none" ELSE "rollback_error"]

\* after the rollback of an abnormal exit, lines 74-77: a failure is logged
AfterRollback(ok) == [pc |-> "close", pending |-> "none"]

\* after self.__connection.close(), lines 80-83: a failure is logged; an
\* exception already propagating through the outer finally keeps propagating
AfterClose(ok, pending) == [pc |-> "reset", pending |-> pending]

\* one engine call of __exit__ and the code around it
ExitStep(at, name, ok, after) ==
    /\ pc = at
    /\ calls' = Append(calls, EngineCall(name, ok))
    /\ pc' = after.pc
    /\ scope' = [scope EXCEPT !.pending = after.pending]

ExitCommit(ok) ==
    /\ ExitStep("commit", "commit", ok, AfterCommit(ok))
    /\ UNCHANGED <<connection, cursor, handles, outcome>>
    /\ UNCHANGED builderVars

ExitSecondaryRollback(ok) ==
    /\ ExitStep("commit_failed", "rollback", ok, AfterSecondaryRollback(ok))
    /\ UNCHANGED <<connection, cursor, handles, outcome>>
    /\ UNCHANGED builderVars

ExitRollback(ok) ==
    /\ ExitStep("rollback", "rollback", ok, AfterRollback(ok))
    /\ UNCHANGED <<connection, cursor, handles, outcome>>
    /\ UNCHANGED builderVars

\* close() that succeeds closes the handle; one that raises leaves it open
ExitClose(ok) ==
    /\ ExitStep("close", "close", ok, AfterClose(ok, scope.pending))
    /\ handles' = IF ok THEN [handles EXCEPT ![connection] = "closed"] ELSE handles
    /\ UNCHANGED <<connection, cursor, outcome>>
    /\ UNCHANGED builderVars

\* a reset that forgets the cursor
ExitResetConnectionOnly ==
    /\ pc = "reset"
    /\ connection' = 0
    /\ pc' = "return"
    /\ UNCHANGED <<cursor, handles, scope, calls, outcome>>
    /\ UNCHANGED builderVars

\* the inner finally, lines 84-86
ExitReset ==
    /\ pc = "reset"
    /\ connection' = 0
    /\ cursor' = 0
    /\ pc' = "return"
    /\ UNCHANGED <<handles, scope, calls, outcome>>
    /\ UNCHANGED builderVars

\* the value __exit__ returns, line 88
ExitReturnValue == FALSE

\* What the caller of the with-statement observes: an exception leaving
\* __exit__ replaces the body's; otherwise the body's exception is re-raised
\* unless __exit__ returned a true value.
Observed(exc, pending, returned) ==
    IF pending # "none" THEN pending
    ELSE IF exc /\ ~returned THEN "body_error"
    ELSE "none"

\* __exit__ returns or raises (line 88) and the with-statement ends
ExitReturn ==
    /\ pc = "return"
    /\ outcome' = [finished |-> "exit", exc |-> scope.exc,
                   error |-> Observed(scope.exc, scope.pending, ExitReturnValue)]
    /\ scope' = [scope EXCEPT !.depth = @ - 1]
    /\ pc' = IF scope.depth > 1 THEN "body" ELSE "idle"
    /\ UNCHANGED <<connection, cursor, handles, calls>>
    /\ UNCHANGED builderVars

---------------------------------------------------------------------------
(* Specifications *)

Init ==
    /\ builders = << RootBuilder(0) >>
    /\ lists = [i \in 1..Len(OPERATOR_MAP) |-> <<>>]
    /\ hist = << <<>> >>
    /\ result = [method |-> "init", bound |-> FALSE, status |-> "ok",
                 sql |-> <<>>, params |-> <<>>]
    /\ connection = 0
    /\ cursor = 0
    /\ handles = <<>>
    /\ pc = "idle"
    /\ scope = [exc |-> FALSE, pending |-> "none", depth |-> 0, held |-> FALSE,
                heldCursor |-> FALSE]
    /\ calls = <<>>
    /\ outcome = [finished |-> "none", exc |-> FALSE, error |-> "none"]

\* Builders kept side by side: every call binds its result to a new slot
Next ==
    \E b \in 1..Len(builders) :
        \/ BuildCall(b)
        \/ /\ Len(builders) < MaxBuilders
           /\ LET dst == Len(builders) + 1 IN
              \/ \E t \in Tables, columns \in SelectColumns : Select(b, dst, t, columns)
              \/ \E t \in Tables : Insert(b, dst, t)
              \/ \E t \in Tables : Update(b, dst, t)
              \/ \E t \in Tables : Delete(b, dst, t)
              \/ \E op_name \in OperatorNames, value \in Values :
                    Operator(b, dst, op_name, "a", value)
              \/ \E args \in {<<>>} \cup {<<f>> : f \in 1..Len(builders)} :
                    Where(b, dst, args)
              \/ \E kwargs \in Kwargs : ValuesCall(b, dst, kwargs)
              \/ \E kwargs \in Kwargs : SetCall(b, dst, kwargs)
              \/ \E a \in JoinArgs : Join(b, dst, a[1], a[2])
              \/ \E a \in OrderArgs : OrderBy(b, dst, a[1], a[2])
              \/ \E n \in PageArgs : Limit(b, dst, n)
              \/ \E n \in PageArgs : Offset(b, dst, n)
              \/ \E args \in ReturningArgs : Returning(b, dst, args)

Spec == Init /\ [][Next]_vars

\* the column named by the next predicate: successive predicates alternate
\* between the two columns, so that their order shows in the SQL text
NextColumn == IF PredCount % 2 = 0 THEN "a" ELSE "b"

\* the value bound by the next predicate: a list no earlier predicate bound,
\* so that the order of the predicates shows in the parameter list
NextValue == ListV(<<2 * PredCount + 1, 2 * PredCount + 2>>)

\* Operator calls only, with at most MaxPreds predicates in the heap.  A
\* call binds its result to the receiver's slot or, while fewer than
\* MaxBuilders - 1 slots are in use, to a new one.
NextWhere ==
    \E b \in 1..Len(builders) :
        \/ BuildCall(b)
        \/ /\ ~HasTablename(builders[b])
           /\ \E t \in Tables : Select(b, b, t, <<>>)
        \/ /\ PredCount < MaxPreds
           /\ \E dst \in {b} \cup (IF Len(builders) < MaxBuilders - 1
                                   THEN {Len(builders) + 1} ELSE {}) :
                 \E op_name \in OperatorNames :
                     Operator(b, dst, op_name, NextColumn, NextValue)

SpecWhere == Init /\ [][NextWhere]_vars

\* One builder rebound in place through the verb and clause methods
\* (q = q.m(..)), with at most MaxClauses clause items
ClausePredicates ==
    { <<"equal", IntV(1)>>,
      <<"in_", ListV(<<2, 3>>)>>,
      <<"not_in", IntV(1)>>, <<"not_in", ListV(<<>>)>>, <<"not_in", ListV(<<2, 3>>)>>,
      <<"is_null", IntV(1)>> }

NextClauses ==
    \/ BuildCall(1)
    \/ \E t \in Tables : Select(1, 1, t, <<>>)
    \/ \E t \in Tables : Insert(1, 1, t)
    \/ \E t \in Tables : Update(1, 1, t)
    \/ \E t \in Tables : Delete(1, 1, t)
    \/ /\ Weight(builders[1]) < MaxClauses
       /\ \/ \E p \in ClausePredicates : Operator(1, 1, p[1], "a", p[2])
          \/ \E kwargs \in Kwargs \ {<<>>} : ValuesCall(1, 1, kwargs)
          \/ \E kwargs \in Kwargs \ {<<>>} : SetCall(1, 1, kwargs)
          \/ \E a \in JoinArgs : Join(1, 1, a[1], a[2])
          \/ OrderBy(1, 1, "a", "DESC")
          \/ Limit(1, 1, 5)
          \/ Offset(1, 1, 0)
          \/ Returning(1, 1, <<"id">>)

SpecClauses == Init /\ [][NextClauses]_vars

\* One builder rebound in place through one call of each kind, in any order,
\* with at most MaxOrderItems clause items: enough for a statement that
\* holds every clause its verb renders
NextOrder ==
    \/ BuildCall(1)
    \/ \E t \in Tables : Select(1, 1, t, <<>>)
    \/ \E t \in Tables : Insert(1, 1, t)
    \/ \E t \in Tables : Update(1, 1, t)
    \/ /\ Weight(builders[1]) < MaxOrderItems
       /\ \/ Operator(1, 1, "equal", "a", IntV(1))
          \/ \E kwargs \in Kwargs \ {<<>>} : ValuesCall(1, 1, kwargs)
          \/ \E kwargs \in Kwargs \ {<<>>} : SetCall(1, 1, kwargs)
          \/ \E a \in JoinArgs : Join(1, 1, a[1], a[2])
          \/ OrderBy(1, 1, "a", "DESC")
          \/ Limit(1, 1, 5)
          \/ Offset(1, 1, 0)
          \/ Returning(1, 1, <<"id">>)

SpecOrder == Init /\ [][NextOrder]_vars

\* the arguments of limit() and offset() in the pagination specification
PageNumbers == (-1)..MaxPage

\* One builder rebound in place through limit() and offset(), in any order
\* and any number of times, under either of two verbs
NextPage ==
    \/ BuildCall(1)
    \/ \E t \in Tables : Select(1, 1, t, <<>>)
    \/ \E t \in Tables : Delete(1, 1, t)
    \/ \E n \in PageNumbers : Limit(1, 1, n)
    \/ \E n \in PageNumbers : Offset(1, 1, n)

SpecPage == Init /\ [][NextPage]_vars

\* the str "O'B"
QuotedName == StrV(<<79, Apostrophe, 66>>)

\* the predicates of the preview specification: a value of each kind the
\* replacer tells apart, a column whose name is a question mark, and a
\* set-membership value that is no sequence
PreviewPredicates ==
    { <<"equal", "a", IntV(1)>>, <<"equal", "?", QuotedName>>,
      <<"not_equal", "a", NoneV>>, <<"like", "a", ObjectV>>,
      <<"in_", "a", ListV(<<2, 3>>)>>, <<"not_in", "a", IntV(1)>>,
      <<"is_null", "a", NoneV>> }

\* One builder rebound in place, then built and previewed, with at most
\* MaxPreviewItems clause items
NextPreview ==
    \/ BuildCall(1)
    \/ PreviewCall(1)
    \/ \E t \in Tables : Select(1, 1, t, <<>>)
    \/ \E t \in Tables : Update(1, 1, t)
    \/ /\ Weight(builders[1]) < MaxPreviewItems
       /\ \/ \E p \in PreviewPredicates : Operator(1, 1, p[1], p[2], p[3])
          \/ SetCall(1, 1, << <<"b", QuotedName>> >>)
          \/ Limit(1, 1, 5)

SpecPreview == Init /\ [][NextPreview]_vars

\* The connection manager alone
NextConn ==
    \/ \E failing \in {"none", "connect", "pragma", "cursor"} : Enter(failing)
    \/ \E raised \in BOOLEAN : ExitBegin(raised)
    \/ \E ok \in BOOLEAN : ExitCommit(ok)
    \/ \E ok \in BOOLEAN : ExitSecondaryRollback(ok)
    \/ \E ok \in BOOLEAN : ExitRollback(ok)
    \/ \E ok \in BOOLEAN : ExitClose(ok)
    \/ ExitReset
    \/ ExitReturn

SpecConn == Init /\ [][NextConn]_vars

---------------------------------------------------------------------------
(* Claims about the builder's object graph, checked under Spec *)

Slots == 1..Len(builders)

VerbMethods == {"select", "insert", "update", "delete"}

\* C1: builders are immutable snapshots: no call on any builder changes what
\* build() returns for a builder that already exists.
C1_BuildersImmutable ==
    [][\A b \in Slots : Build(builders'[b], lists') = Build(builders[b], lists)]_vars

\* every clause method, with every argument the model draws, on builder self
ClauseCallStatuses(self) ==
    {OperatorMethod(self, lists, op_name, "a", value).status :
        op_name \in OperatorNames, value \in Values}
    \cup {WhereMethod(self, lists, args).status :
        args \in {<<>>} \cup {<<f>> : f \in Slots}}
    \cup {ValuesMethod(self, lists, kwargs).status : kwargs \in Kwargs}
    \cup {SetMethod(self, lists, kwargs).status : kwargs \in Kwargs}
    \cup {JoinMethod(self, lists, a[1], a[2]).status : a \in JoinArgs}
    \cup {OrderByMethod(self, lists, a[1], a[2]).status : a \in OrderArgs}
    \cup {LimitMethod(self, lists, n).status : n \in PageArgs}
    \cup {OffsetMethod(self, lists, n).status : n \in PageArgs}
    \cup {ReturningMethod(self, lists, args).status : args \in ReturningArgs}

\* every verb method, with every argument the model draws, on builder self
VerbCallResults(self) ==
    {SelectMethod(self, lists, t, columns) : t \in Tables, columns \in SelectColumns}
    \cup {InsertMethod(self, lists, t) : t \in Tables}
    \cup {UpdateMethod(self, lists, t) : t \in Tables}
    \cup {DeleteMethod(self, lists, t) : t \in Tables}

\* C2: on a builder with no bound table every clause method, whatever its
\* arguments, and build() fail with TablenameDoesNotExist; the four verb
\* methods succeed and return a table-bound builder.
C2_MissingTable ==
    /\ \A b \in Slots :
          ~HasTablename(builders[b]) =>
             /\ ClauseCallStatuses(builders[b]) = {"TablenameDoesNotExist"}
             /\ Build(builders[b], lists).status = "TablenameDoesNotExist"
             /\ \A out \in VerbCallResults(builders[b]) :
                   out.status = "ok" /\ HasTablename(out.ret)
    /\ (~result.bound /\ result.method \notin VerbMethods \cup {"init"})
          => result.status = "TablenameDoesNotExist"
    /\ (~result.bound /\ result.method \in VerbMethods) => result.status = "ok"

\* a limit() call on a builder with no table was refused, while the
\* unbound builder is still there
C2_Witness ==
    /\ result.method = "limit"
    /\ ~result.bound
    /\ result.status = "TablenameDoesNotExist"
    /\ \E b \in Slots : HasTablename(builders[b])

\* what the claims say one condition renders to
ExpectedCondition(op_name, column, value) ==
    IF op_name \in {"is_null", "is_not_null"}
    THEN [sql |-> <<column, OperatorSymbol(op_name)>>, params |-> <<>>]
    ELSE IF op_name \in {"in_", "not_in"}
    THEN [sql |-> <<column, OperatorSymbol(op_name), "(">>
                  \o JoinTokens(Placeholders(Len(value.items)), ",") \o <<")">>,
          params |-> [i \in 1..Len(value.items) |-> IntV(value.items[i])]]
    ELSE [sql |-> <<column, OperatorSymbol(op_name), "?">>, params |-> <<value>>]

\* C9: build() renders a set-membership condition (in_, not_in) with one
\* placeholder and one parameter per element and fails with ValueError when
\* its value is no list or tuple; a nullness condition has no placeholder
\* and no parameter; any other condition has one placeholder bound to the
\* value.
C9_ConditionShapes ==
    \A b \in Slots :
        HasTablename(builders[b]) =>
            LET conds == WhereConditions(builders[b], lists) IN
            \A i \in 1..Len(conds) :
                IF conds[i].op \in {"in_", "not_in"} /\ ~IsListOrTuple(conds[i].value)
                THEN Build(builders[b], lists).status = "ValueError"
                ELSE LET r == RenderCondition(conds[i].op, conds[i].column, conds[i].value)
                         e == ExpectedCondition(conds[i].op, conds[i].column, conds[i].value)
                     IN ~r.error /\ r.sql = e.sql /\ r.params = e.params

---------------------------------------------------------------------------
(* Reading a build() result back *)

\* number of occurrences of token in a token sequence
CountOf(sql, token) == Cardinality({i \in 1..Len(sql) : sql[i] = token})

Has(sql, token) == CountOf(sql, token) > 0

\* sql.split(sep), on token sequences
RECURSIVE SplitOn(_, _)
SplitOn(sql, sep) ==
    IF sql = <<>> THEN << <<>> >>
    ELSE LET rest == SplitOn(Tail(sql), sep) IN
         IF Head(sql) = sep THEN << <<>> >> \o rest
         ELSE << <<Head(sql)>> \o Head(rest) >> \o Tail(rest)

\* registry position of the operator whose SQL token is symbol
SymbolIndex(symbol) ==
    CHOOSE i \in 1..Len(OPERATOR_MAP) : OPERATOR_MAP[i][2] = symbol

\* The WHERE clause of a successful build() of a builder that holds
\* predicates only, read back from the SQL text and the parameter list:
\* per condition its column, its operator token and the parameters that
\* its placeholders take, in text order.
RenderedConditions(self, out) ==
    LET rest == SubSeq(out.sql, Len(self.query) + 1, Len(out.sql))
        clauses == IF rest = <<>> THEN <<>> ELSE SplitOn(Tail(rest), "AND")
        taken(i) == SumLen([j \in 1..(i - 1) |->
                        SelectSeq(clauses[j], LAMBDA t : t = "?")])
    IN [i \in 1..Len(clauses) |->
           [column |-> clauses[i][1], symbol |-> clauses[i][2],
            params |-> SubSeq(out.params, taken(i) + 1,
                              taken(i) + CountOf(clauses[i], "?"))]]

\* a rendered condition is the rendering of operator call c
MatchesCall(c, r) ==
    /\ r.column = c.column
    /\ r.symbol = OperatorSymbol(c.op)
    /\ IF c.op \in {"is_null", "is_not_null"} THEN r.params = <<>>
       ELSE \/ r.params = <<c.value>>
            \/ r.params = [i \in 1..Len(c.value.items) |-> IntV(c.value.items[i])]

\* the calls cs are rendered, in this order, among the conditions rs
RECURSIVE RenderedInOrder(_, _)
RenderedInOrder(cs, rs) ==
    IF cs = <<>> THEN TRUE
    ELSE IF rs = <<>> THEN FALSE
    ELSE IF MatchesCall(Head(cs), Head(rs)) THEN RenderedInOrder(Tail(cs), Tail(rs))
    ELSE RenderedInOrder(cs, Tail(rs))

\* operator calls regrouped by operator in registry order, call order kept
\* within an operator
GroupedByRegistry(cs) ==
    Concat([i \in 1..Len(OPERATOR_MAP) |->
               SelectSeq(cs, LAMBDA c : c.op = OPERATOR_MAP[i][1])])

---------------------------------------------------------------------------
(* Claims about WHERE, checked under SpecWhere *)

\* C7: build() renders the WHERE conditions grouped by operator in registry
\* order whatever the order of the calls; the predicates added along a
\* builder's own chain of operator calls all appear, within one operator in
\* call order, each with its parameters at the matching place of the
\* parameter list; a builder that is the only one derived from its root
\* renders exactly its own calls.
C7_WhereOrder ==
    \A b \in Slots :
        LET self == builders[b]
            out == Build(self, lists)
        IN (HasTablename(self) /\ out.status = "ok") =>
            LET rs == RenderedConditions(self, out) IN
            /\ \A i, j \in 1..Len(rs) :
                  i < j => SymbolIndex(rs[i].symbol) <= SymbolIndex(rs[j].symbol)
            /\ RenderedInOrder(GroupedByRegistry(hist[b]), rs)
            /\ Len(out.params) = SumLen([i \in 1..Len(rs) |-> rs[i].params])
            /\ Len(builders) = 1 => Len(rs) = Len(hist[b])

\* a builder whose two predicates were added against registry order has
\* been built
C7_Witness ==
    \E b \in Slots :
        /\ Len(hist[b]) = 2
        /\ RegistryIndex(hist[b][1].op) > RegistryIndex(hist[b][2].op)
        /\ result.method = "build" /\ result.status = "ok"
        /\ result.sql = Build(builders[b], lists).sql
        /\ Len(result.params) >= 2

---------------------------------------------------------------------------
(* Claims about the clauses, checked under SpecClauses *)

\* C8: a build() that succeeds returns as many placeholders as parameters.
C8_PlaceholdersMatchParams ==
    /\ \A b \in Slots :
          LET out == Build(builders[b], lists) IN
          out.status = "ok" => CountOf(out.sql, "?") = Len(out.params)
    /\ (result.method = "build" /\ result.status = "ok")
          => CountOf(result.sql, "?") = Len(result.params)

\* an UPDATE with an assignment and a set-membership predicate over a
\* two-element list has been built
C8_Witness ==
    /\ result.method = "build" /\ result.status = "ok"
    /\ StartsWith(builders[1].query, "UPDATE")
    /\ builders[1].set # None
    /\ Has(result.sql, "(")
    /\ Len(result.params) >= 3

\* the builder without the clause fields its verb does not render
WithoutIncompatible(self) ==
    LET select == StartsWith(self.query, "SELECT")
        insert == StartsWith(self.query, "INSERT")
        update == StartsWith(self.query, "UPDATE")
    IN [self EXCEPT !.join = IF select THEN @ ELSE None,
                    !.order_by = IF select THEN @ ELSE None,
                    !.pagination = IF select THEN @ ELSE None,
                    !.set = IF update THEN @ ELSE None,
                    !.values = IF insert THEN @ ELSE None,
                    !.returning = IF insert \/ update THEN @ ELSE None]

\* clause methods called with valid arguments on builder self
ValidClauseCallStatuses(self) ==
    {ValuesMethod(self, lists, kwargs).status : kwargs \in Kwargs}
    \cup {SetMethod(self, lists, kwargs).status : kwargs \in Kwargs}
    \cup {JoinMethod(self, lists, a[1], a[2]).status : a \in JoinArgs}
    \cup {OrderByMethod(self, lists, a[1], a[2]).status : a \in OrderArgs}
    \cup {LimitMethod(self, lists, n).status : n \in {n \in PageArgs : n >= 0}}
    \cup {OffsetMethod(self, lists, n).status : n \in {n \in PageArgs : n >= 0}}
    \cup {ReturningMethod(self, lists, args).status : args \in ReturningArgs}

\* C10: build() emits JOIN, ORDER BY, LIMIT and OFFSET only for SELECT, SET
\* only for UPDATE, VALUES only for INSERT, RETURNING only for INSERT or
\* UPDATE, and each of them whenever the verb fits and the clause is set;
\* setting a clause never fails, whatever the verb; a clause the verb does
\* not fit adds neither text nor parameters; WHERE is rendered for every
\* verb.
C10_VerbGating ==
    \A b \in Slots :
        LET self == builders[b]
            out == Build(self, lists)
            select == StartsWith(self.query, "SELECT")
            insert == StartsWith(self.query, "INSERT")
            update == StartsWith(self.query, "UPDATE")
        IN HasTablename(self) =>
            /\ ValidClauseCallStatuses(self) = {"ok"}
            /\ out = Build(WithoutIncompatible(self), lists)
            /\ out.status = "ok" =>
                /\ Has(out.sql, "JOIN") <=> (select /\ self.join # None)
                /\ Has(out.sql, "ORDER BY") <=> (select /\ self.order_by # None)
                /\ Has(out.sql, "LIMIT")
                      <=> (select /\ self.pagination # None /\ self.pagination[2] # None)
                /\ Has(out.sql, "OFFSET")
                      <=> (select /\ self.pagination # None /\ self.pagination[1] # None)
                /\ Has(out.sql, "SET") <=> (update /\ self.set # None)
                /\ Has(out.sql, "VALUES") <=> (insert /\ self.values # None)
                /\ Has(out.sql, "RETURNING")
                      <=> ((insert \/ update) /\ self.returning # None)
                /\ Has(out.sql, "WHERE") <=> (WhereConditions(self, lists) # <<>>)

\* a DELETE holding a join, an ordering and a predicate has been built: only
\* its WHERE shows
C10_Witness ==
    /\ result.method = "build" /\ result.status = "ok"
    /\ StartsWith(builders[1].query, "DELETE")
    /\ builders[1].join # None
    /\ builders[1].order_by # None
    /\ Has(result.sql, "WHERE")
    /\ ~Has(result.sql, "JOIN")
    /\ result.sql = Build(builders[1], lists).sql

---------------------------------------------------------------------------
(* Claims about the connection manager, checked under SpecConn *)

NotEstablished ==
    /\ ConnectionProperty = "RuntimeError: Connection is not established."
    /\ CursorProperty = "RuntimeError: Cursor is not established."

CallNames == [i \in 1..Len(calls) |-> calls[i].call]

\* __exit__ is between its first statement and its close() attempt
BeforeClose == pc \in {"commit", "commit_failed", "rollback", "close"}

\* C3: once __exit__ is about to return, and after it has returned, the
\* connection and the cursor are unset and both properties raise the
\* not-established error, however the body ended and whichever of commit,
\* rollback and close failed.
C3_ScopeEndsClosed ==
    (pc = "return" \/ outcome.finished = "exit") =>
        /\ connection = 0
        /\ cursor = 0
        /\ NotEstablished

\* a scope whose body raised and whose rollback and close both failed has
\* ended
C3_Witness ==
    /\ outcome.finished = "exit"
    /\ outcome.exc
    /\ calls = <<EngineCall("rollback", FALSE), EngineCall("close", FALSE)>>
    /\ pc = "idle"

\* the engine calls an __exit__ that found a connection makes, in order
ExpectedCalls ==
    IF scope.exc THEN <<"rollback", "close">>
    ELSE IF calls # <<>> /\ ~calls[1].ok THEN <<"commit", "rollback", "close">>
    ELSE <<"commit", "close">>

\* C4: an __exit__ that finds a connection makes its engine calls in a fixed
\* order: on a normal exit commit first, rollback only after a failed commit;
\* on an abnormal exit rollback and never commit; then close, exactly once
\* and last; the connection and the cursor are not reset before the close
\* attempt.  (An __exit__ that finds no connection makes no call.)
C4_ExitOrder ==
    /\ ~scope.held => calls = <<>>
    /\ scope.held =>
          /\ Len(calls) <= Len(ExpectedCalls)
          /\ CallNames = SubSeq(ExpectedCalls, 1, Len(calls))
          /\ ~BeforeClose => CallNames = ExpectedCalls
          /\ (BeforeClose \/ pc = "reset") =>
                /\ connection # 0
                /\ scope.heldCursor => cursor # 0
          /\ pc = "reset" => calls[Len(calls)].call = "close"

\* a normal exit whose commit failed has rolled back, closed and reset
C4_Witness ==
    /\ pc = "return"
    /\ scope.held /\ ~scope.exc
    /\ CallNames = <<"commit", "rollback", "close">>
    /\ connection = 0

\* C5: after an abnormal exit the caller observes the error the body
\* raised, whichever of rollback and close failed.
C5_TriggeringErrorEscapes ==
    (outcome.finished = "exit" /\ outcome.exc) => outcome.error = "body_error"

\* the body raised, rollback and close both failed, and the caller got the
\* body's error
C5_Witness ==
    /\ outcome.finished = "exit"
    /\ outcome.exc
    /\ outcome.error = "body_error"
    /\ scope.held
    /\ \A i \in 1..Len(calls) : ~calls[i].ok
    /\ Len(calls) = 2

\* C6: after a normal exit whose commit failed the caller observes the
\* commit failure.
C6_CommitFailureEscapes ==
    ( /\ outcome.finished = "exit"
      /\ ~outcome.exc
      /\ scope.held
      /\ calls # <<>>
      /\ calls[1] = EngineCall("commit", FALSE) )
    => outcome.error = "commit_error"

---------------------------------------------------------------------------
(* Claims about the order of the clauses, checked under SpecOrder *)

\* the clause keywords in the order the claims give them
ClauseKeywords ==
    <<"JOIN", "SET", "VALUES", "WHERE", "ORDER BY", "LIMIT", "OFFSET", "RETURNING">>

\* position of a keyword in ClauseKeywords
KeywordRank(token) == CHOOSE i \in 1..Len(ClauseKeywords) : ClauseKeywords[i] = token

\* the clause keywords of a SQL text, in text order
KeywordsOf(sql) ==
    SelectSeq(sql, LAMBDA t : \E i \in 1..Len(ClauseKeywords) : ClauseKeywords[i] = t)

\* the text from its WHERE keyword on, empty when it has none
RECURSIVE FromWhere(_)
FromWhere(sql) ==
    IF sql = <<>> THEN <<>>
    ELSE IF Head(sql) = "WHERE" THEN sql
    ELSE FromWhere(Tail(sql))

\* the values of a dict, in its order
DictValues(d) == [i \in 1..Len(d) |-> d[i][2]]

\* C11: a build() that succeeds starts with the verb prefix and writes the
\* clauses it renders in the order JOIN, SET, VALUES, WHERE, ORDER BY, LIMIT,
\* OFFSET, RETURNING, whatever the order of the calls that set them; the
\* parameter list starts with the SET or VALUES parameters, in dict order,
\* and continues with the WHERE parameters only.
C11_ClauseOrder ==
    \A b \in Slots :
        LET self == builders[b]
            out == Build(self, lists)
            sql == out.sql
            clauses == SubSeq(sql, Len(self.query) + 1, Len(sql))
            keywords == KeywordsOf(sql)
            lead == IF Has(keywords, "SET") THEN DictValues(self.set)
                    ELSE IF Has(keywords, "VALUES") THEN DictValues(self.values)
                    ELSE <<>>
        IN out.status = "ok" =>
            /\ SubSeq(sql, 1, Len(self.query)) = self.query
            /\ KeywordsOf(clauses) = keywords
            /\ \A i \in 1..(Len(keywords) - 1) :
                  \/ KeywordRank(keywords[i]) < KeywordRank(keywords[i + 1])
                  \/ keywords[i] = "JOIN" /\ keywords[i + 1] = "JOIN"
            /\ Len(lead) <= Len(out.params)
            /\ SubSeq(out.params, 1, Len(lead)) = lead
            /\ Len(out.params) - Len(lead) = CountOf(FromWhere(sql), "?")

\* a SELECT holding a join, a predicate, an ordering, a limit and an offset
\* has been built: all five clauses show
C11_Witness ==
    /\ result.method = "build" /\ result.status = "ok"
    /\ result.sql = Build(builders[1], lists).sql
    /\ KeywordsOf(result.sql) = <<"JOIN", "WHERE", "ORDER BY", "LIMIT", "OFFSET">>

---------------------------------------------------------------------------
(* Claims about pagination, checked under SpecPage *)

\* C12: on a table-bound builder, whatever limit() and offset() calls made
\* it, limit(n) with n >= 0 (0 included) returns a builder whose limit is n
\* and whose offset is the receiver's, offset(n) one whose offset is n and
\* whose limit is the receiver's; with n < 0 both raise ValueError and
\* return no builder.  A limit() or offset() call made on a bound builder
\* ended in one of these two ways.
C12_PaginationSides ==
    /\ \A b \in Slots :
          LET self == builders[b] IN
          HasTablename(self) =>
             \A n \in PageNumbers :
                LET l == LimitMethod(self, lists, n)
                    o == OffsetMethod(self, lists, n)
                IN IF n < 0
                   THEN /\ l.status = "ValueError" /\ l.ret = <<>>
                        /\ o.status = "ValueError" /\ o.ret = <<>>
                   ELSE /\ l.status = "ok"
                        /\ LimitData(l.ret) = <<n>>
                        /\ OffsetData(l.ret) = OffsetData(self)
                        /\ o.status = "ok"
                        /\ OffsetData(o.ret) = <<n>>
                        /\ LimitData(o.ret) = LimitData(self)
    /\ (result.method \in {"limit", "offset"} /\ result.bound)
          => result.status \in {"ok", "ValueError"}
    /\ (result.method = "limit" /\ result.status = "ok")
          => LimitData(builders[1]) # None /\ LimitData(builders[1])[1] >= 0
    /\ (result.method = "offset" /\ result.status = "ok")
          => OffsetData(builders[1]) # None /\ OffsetData(builders[1])[1] >= 0

\* limit(0) has just been called on a builder whose offset was 1: the
\* builder bound now has limit 0 and offset 1
C12_Witness ==
    /\ result.method = "limit" /\ result.status = "ok"
    /\ LimitData(builders[1]) = <<0>>
    /\ OffsetData(builders[1]) = <<1>>

---------------------------------------------------------------------------
(* Claims about where(), checked under Spec *)

\* the predicate list of op_name held by builder self
PredicatesOf(self, heap, op_name) == heap[ListOf(self.params, op_name)]

\* C13: on a table-bound builder where() with no fragment returns the
\* receiver; where(f) with a builder f does not fail and returns a builder
\* that holds, for every operator, the fragment's list when that list is
\* not empty and the receiver's list otherwise.
C13_WhereMerges ==
    /\ \A b \in Slots :
          LET self == builders[b] IN
          HasTablename(self) =>
             /\ WhereMethod(self, lists, <<>>) = Returns(self, lists)
             /\ \A f \in Slots :
                   LET out == WhereMethod(self, lists, <<f>>) IN
                   /\ out.status = "ok"
                   /\ \A op_name \in OperatorNames :
                         PredicatesOf(out.ret, out.lists, op_name) =
                            IF PredicatesOf(builders[f], lists, op_name) # <<>>
                            THEN PredicatesOf(builders[f], lists, op_name)
                            ELSE PredicatesOf(self, lists, op_name)
    /\ (result.method = "where" /\ result.bound) => result.status = "ok"

---------------------------------------------------------------------------
(* Claims about preview() and build(), checked under SpecPreview *)

\* what the claims say the literal of a parameter is
ExpectedLiteral(val) ==
    IF val.kind = "none" THEN <<"NULL">>
    ELSE IF val.kind = "str"
    THEN <<"'">>
         \o Concat([i \in 1..Len(val.items) |->
                IF val.items[i] = Apostrophe THEN <<"'", "'">> ELSE <<Chr(val.items[i])>>])
         \o <<"'">>
    ELSE IF val.kind = "int" THEN <<ToString(val.n)>>
    ELSE <<"[">> \o JoinTokens([i \in 1..Len(val.items) |-> <<ToString(val.items[i])>>], ",")
         \o <<"]">>

\* the text with its i-th question mark replaced by the literal of the
\* i-th parameter, and the question marks beyond the parameters left alone
ExpectedPreview(sql, params) ==
    Concat([i \in 1..Len(sql) |->
        IF sql[i] # "?" THEN <<sql[i]>>
        ELSE LET k == CountOf(SubSeq(sql, 1, i), "?") IN
             IF k <= Len(params) THEN ExpectedLiteral(params[k]) ELSE <<"?">>])

\* the text is an inline comment naming the error kind and its message
IsErrorComment(text, kind) ==
    /\ Len(text) = 5
    /\ text[1] = "/* PREVIEW ERROR:" /\ text[5] = "*/"
    /\ text[2] = kind
    /\ text[4] = ErrorMessage(kind)

\* the parameters that the question marks of the text consume
Consumed(sql, params) ==
    SubSeq(params, 1, IF CountOf(sql, "?") < Len(params) THEN CountOf(sql, "?")
                      ELSE Len(params))

\* C14: preview() never raises.  When build() fails it returns an inline
\* comment with the kind and the message of the error; so it does when the
\* literal of a parameter cannot be written; otherwise it returns the SQL
\* text of build() with the i-th placeholder replaced by the literal of the
\* i-th parameter (NULL, a quoted string with its quotes doubled, a number,
\* or the textual form of the value) and the placeholders beyond the
\* parameter list left as they are.  A placeholder is any question mark of
\* the text, one written in a column name included.
C14_PreviewNeverRaises ==
    /\ \A b \in Slots :
          LET self == builders[b]
              out == Build(self, lists)
              shown == Preview(self, lists)
          IN /\ shown.status = "ok"
             /\ out.status # "ok" => IsErrorComment(shown.text, out.status)
             /\ out.status = "ok" =>
                   LET used == Consumed(out.sql, out.params) IN
                   IF \E i \in 1..Len(used) : used[i].kind = "object"
                   THEN IsErrorComment(shown.text, "RuntimeError")
                   ELSE shown.text = ExpectedPreview(out.sql, out.params)
    /\ result.method = "preview" => result.status = "ok"

\* a predicate on a column named "?" with the value O'B has been previewed:
\* the first question mark took the value, quotes doubled, and the second
\* one, beyond the parameter list, is still there
C14_Witness ==
    /\ result.method = "preview" /\ result.status = "ok"
    /\ result.sql = <<"SELECT", "*", "FROM", "t", "WHERE",
                      "'", "O", "'", "'", "B", "'", "=", "?">>

\* the fields of result that a build() call sets
BuildOutcome(r) == [status |-> r.status, sql |-> r.sql, params |-> r.params]

\* C15: a build() or preview() call changes no field of any builder and no
\* predicate list, and what a build() call returns is what build() returns
\* when called again right after it.
C15_BuildReadOnly ==
    [][result'.method \in {"build", "preview"} =>
          /\ builders' = builders
          /\ lists' = lists
          /\ result'.method = "build" =>
                BuildOutcome(result') = Build(builders'[1], lists')]_vars

\* an UPDATE holding an assignment and a predicate has been built, and
\* building it again gives the same text and the same two parameters
C15_Witness ==
    /\ result.method = "build" /\ result.status = "ok"
    /\ StartsWith(builders[1].query, "UPDATE")
    /\ builders[1].set # None
    /\ Has(result.sql, "WHERE")
    /\ Len(result.params) = 2
    /\ BuildOutcome(result) = Build(builders[1], lists)

---------------------------------------------------------------------------
(* Claims about the handles of the connection manager, checked under       *)
(* SpecConn                                                                *)

\* the handles opened and not closed
LiveHandles == {h \in 1..Len(handles) : handles[h] = "open"}

\* C16: at most one handle opened by the manager is live at any time, a
\* second __enter__ before the matching __exit__ included; when the manager
\* holds no connection and no cursor, every handle it opened is closed.
C16_AtMostOneLive ==
    /\ Cardinality(LiveHandles) <= 1
    /\ (connection = 0 /\ cursor = 0) => LiveHandles = {}

\* C17: an __enter__ that opened the connection and then failed, in a PRAGMA
\* or in cursor(), leaves the handle it opened closed and the connection and
\* the cursor unset, so that both properties raise the not-established error.
C17_EnterAllOrNothing ==
    (outcome.finished = "enter" /\ outcome.error \in {"pragma_error", "cursor_error"})
    => /\ handles[Len(handles)] = "closed"
       /\ connection = 0
       /\ cursor = 0
       /\ NotEstablished

====
